---------------------------- MODULE Spec2Model ----------------------------
(***************************************************************************)
(* Model of count_unique_ipv6.cc: the textual IPv6 parser (parseIPv6),     *)
(* the buffered partition writer (BucketWriter), the per-partition         *)
(* reducer (processBucket) and the two-phase coordinator (main).           *)
(*                                                                         *)
(* A line is a sequence of one-character strings.  A 64-bit half of a key  *)
(* is kept as its four 16-bit limbs, most significant first (TLC integers  *)
(* are 32 bits wide), so <<a,b,c,d>> stands for a<<48 | b<<32 | c<<16 | d. *)
(***************************************************************************)
EXTENDS Integers, Sequences, FiniteSets, TLC

(***************************************************************************)
(* parseIPv6 and its helpers                                               *)
(***************************************************************************)

\* line[i] with the 0-based index of the source
At(line, i) == line[i + 1]

isspace(c) == c \in {" ", "\t", "\n", "\f", "\r"}

DecDigits == <<"0", "1", "2", "3", "4", "5", "6", "7", "8", "9">>
LowerHex == <<"a", "b", "c", "d", "e", "f">>
UpperHex == <<"A", "B", "C", "D", "E", "F">>

IndexOf(table, c) == CHOOSE k \in 1..Len(table) : table[k] = c

IsIn(table, c) == \E k \in 1..Len(table) : table[k] = c

\* A mis-typed upper-case branch: 'A'..'F' give 0..5 instead of 10..15.
hexDigitToIntUpperOff(c) ==
    IF IsIn(DecDigits, c) THEN IndexOf(DecDigits, c) - 1
    ELSE IF IsIn(LowerHex, c) THEN IndexOf(LowerHex, c) - 1 + 10
    ELSE IF IsIn(UpperHex, c) THEN IndexOf(UpperHex, c) - 1
    ELSE -1

hexDigitToInt(c) ==
    IF IsIn(DecDigits, c) THEN IndexOf(DecDigits, c) - 1
    ELSE IF IsIn(LowerHex, c) THEN IndexOf(LowerHex, c) - 1 + 10
    ELSE IF IsIn(UpperHex, c) THEN IndexOf(UpperHex, c) - 1 + 10
    ELSE -1

\* val = (val << 4) | digit on a uint32_t, val kept as <<high 16 bits, low 16 bits>>
ShiftInDigit(val, digit) ==
    << (val[1] * 16 + (val[2] \div 4096)) % 65536, (val[2] * 16 + digit) % 65536 >>

\* A conversion that saturates instead of truncating.
ToUint16Sat(val) == IF val[1] # 0 THEN 65535 ELSE val[2]

\* static_cast<uint16_t>(val)
ToUint16(val) == val[2]

\* A parser that does not skip the white space before the address.
SkipSpacesOff(line, i) == i

\* while (i < len && isspace(line[i])) i++;
RECURSIVE SkipSpaces(_, _)
SkipSpaces(line, i) ==
    IF i < Len(line) /\ isspace(At(line, i)) THEN SkipSpaces(line, i + 1) ELSE i

\* the inner digit loop: returns the index after the digits, val and has_digits
RECURSIVE ReadHex(_, _, _, _)
ReadHex(line, i, val, has_digits) ==
    IF i < Len(line) /\ hexDigitToInt(At(line, i)) # -1
    THEN ReadHex(line, i + 1, ShiftInDigit(val, hexDigitToInt(At(line, i))), TRUE)
    ELSE [i |-> i, val |-> val, has_digits |-> has_digits]

NoParts == [k \in 0..7 |-> 0]

\* return false: used is the set of parts[] indices accessed so far
Rejected == [ok |-> FALSE, parts |-> NoParts, current_part |-> 0, double_colon_index |-> -1,
             used |-> {}]

\* if (double_colon_index != -1) return false;
SecondMarker(double_colon_index) == double_colon_index # -1

\* the main loop of parseIPv6: while (i < len && current_part < 8) { ... };
\* used collects the indices at which parts[] is written
RECURSIVE GroupLoop(_, _, _, _, _, _)
GroupLoop(line, i, parts, current_part, double_colon_index, used) ==
    IF ~(i < Len(line) /\ current_part < 8)
    THEN [ok |-> TRUE, parts |-> parts, current_part |-> current_part,
          double_colon_index |-> double_colon_index, used |-> used]
    ELSE
      LET r == ReadHex(line, i, <<0, 0>>, FALSE)
          parts1 == IF r.has_digits
                    THEN [parts EXCEPT ![current_part] = ToUint16(r.val)]
                    ELSE parts
          used1 == IF r.has_digits THEN used \cup {current_part} ELSE used
          cp1 == IF r.has_digits THEN current_part + 1 ELSE current_part
          j == r.i
      IN  IF j >= Len(line) \/ isspace(At(line, j))
          THEN [ok |-> TRUE, parts |-> parts1, current_part |-> cp1,
                double_colon_index |-> double_colon_index, used |-> used1]
          ELSE IF At(line, j) = ":"
          THEN IF j + 1 < Len(line) /\ At(line, j + 1) = ":"
               THEN IF SecondMarker(double_colon_index)
                    THEN [Rejected EXCEPT !.used = used1]
                    ELSE GroupLoop(line, j + 2, parts1, cp1, cp1, used1)
               ELSE GroupLoop(line, j + 1, parts1, cp1, double_colon_index, used1)
          ELSE [Rejected EXCEPT !.used = used1]

\* A shift that writes one slot too far.
ShiftTargetOff(k) == 8 - k

\* parts[7 - k]
ShiftTarget(k) == 7 - k

\* parts[parts_parsed - 1 - k]
ShiftSource(parts_parsed, k) == parts_parsed - 1 - k

\* for (k = 0; k < parts_to_shift; ++k) { parts[7-k] = parts[pp-1-k]; parts[pp-1-k] = 0; }
RECURSIVE ShiftLoop(_, _, _, _)
ShiftLoop(parts, parts_parsed, parts_to_shift, k) ==
    IF k < parts_to_shift
    THEN LET moved == [parts EXCEPT ![ShiftTarget(k)] = parts[ShiftSource(parts_parsed, k)]]
             zeroed == [moved EXCEPT ![ShiftSource(parts_parsed, k)] = 0]
         IN  ShiftLoop(zeroed, parts_parsed, parts_to_shift, k + 1)
    ELSE parts

\* the parts[] indices that loop reads and writes
ShiftIndices(parts_parsed, parts_to_shift) ==
    UNION {{ShiftTarget(k), ShiftSource(parts_parsed, k)} : k \in 0..(parts_to_shift - 1)}

\* the "::" expansion block
ExpandDoubleColon(parts, current_part, double_colon_index) ==
    ShiftLoop(parts, current_part, current_part - double_colon_index, 0)

\* An address check that lets short addresses through.
IncompleteOff(current_part) == FALSE

\* else if (current_part != 8) return false;
Incomplete(current_part) == current_part # 8

\* result.hi / result.lo from the eight parts
Pack(parts) ==
    [hi |-> <<parts[0], parts[1], parts[2], parts[3]>>,
     lo |-> <<parts[4], parts[5], parts[6], parts[7]>>]

ZeroKey == [hi |-> <<0, 0, 0, 0>>, lo |-> <<0, 0, 0, 0>>]

Reject == [ok |-> FALSE, key |-> ZeroKey]

Accept(key) == [ok |-> TRUE, key |-> key]

\* the part of parseIPv6 after the leading-"::" handling
ParseFrom(line, i, double_colon_index) ==
    LET g == GroupLoop(line, i, NoParts, 0, double_colon_index, {})
    IN  IF ~g.ok THEN Reject
        ELSE IF g.double_colon_index # -1
        THEN Accept(Pack(ExpandDoubleColon(g.parts, g.current_part, g.double_colon_index)))
        ELSE IF Incomplete(g.current_part) THEN Reject
        ELSE Accept(Pack(g.parts))

parseIPv6(line) ==
    LET len == Len(line)
        i == SkipSpaces(line, 0)
    IN  IF i = len THEN Reject
        ELSE IF At(line, i) = ":"
        THEN IF i + 1 < len /\ At(line, i + 1) = ":"
             THEN IF i + 2 >= len \/ isspace(At(line, i + 2))
                  THEN Accept(ZeroKey)
                  ELSE ParseFrom(line, i + 2, 0)
             ELSE Reject
        ELSE ParseFrom(line, i, -1)

\* what parseIPv6 does to parts[] on line: the indices written by the main loop,
\* whether the "::" expansion runs, its double_colon_index, parts_parsed and
\* parts_to_shift, and the indices its loop reads and writes
ParseTrace(line) ==
    LET len == Len(line)
        i == SkipSpaces(line, 0)
        leading == i + 1 < len /\ At(line, i) = ":" /\ At(line, i + 1) = ":"
        enters == /\ i < len
                  /\ IF At(line, i) = ":"
                     THEN leading /\ ~(i + 2 >= len \/ isspace(At(line, i + 2)))
                     ELSE TRUE
        g == IF enters
             THEN GroupLoop(line, IF leading THEN i + 2 ELSE i, NoParts, 0,
                            IF leading THEN 0 ELSE -1, {})
             ELSE Rejected
        expands == g.ok /\ g.double_colon_index # -1
    IN  [stored |-> g.used,
         expands |-> expands,
         double_colon_index |-> g.double_colon_index,
         parts_parsed |-> g.current_part,
         parts_to_shift |-> g.current_part - g.double_colon_index,
         shifted |-> IF expands
                     THEN ShiftIndices(g.current_part, g.current_part - g.double_colon_index)
                     ELSE {}]


(***************************************************************************)
(* Input lines for the parser: spellings built from group values            *)
(***************************************************************************)

\* most groups a generated line holds (more than the eight slots of parts)
MaxGroups == 9

\* group values by position in the line: all different, none zero
BaseVal == <<8193, 3512, 65280, 66, 33577, 10, 176, 3072, 13, 14, 15, 61440>>

LowerChars == DecDigits \o LowerHex
UpperChars == DecDigits \o UpperHex

Styles == {"min", "upper", "pad4", "five", "long"}

FourDigits(v) == <<v \div 4096, (v \div 256) % 16, (v \div 16) % 16, v % 16>>

RECURSIVE StripZeros(_)
StripZeros(ds) ==
    IF Len(ds) > 1 /\ Head(ds) = 0 THEN StripZeros(Tail(ds)) ELSE ds

\* the text of one group: minimal lower case, minimal upper case, four digits,
\* or five or nine digits of which the last four are the value
GroupText(v, style) ==
    LET ds == IF style \in {"min", "upper"} THEN StripZeros(FourDigits(v)) ELSE FourDigits(v)
        table == IF style = "upper" THEN UpperChars ELSE LowerChars
        txt == [k \in 1..Len(ds) |-> table[ds[k] + 1]]
    IN  IF style = "long" THEN <<"1", "2", "3", "4", "5">> \o txt
        ELSE IF style = "five" THEN <<"f">> \o txt
        ELSE txt

RECURSIVE JoinGroups(_, _)
JoinGroups(vals, style) ==
    IF vals = <<>> THEN <<>>
    ELSE IF Len(vals) = 1 THEN GroupText(vals[1], style)
    ELSE GroupText(vals[1], style) \o <<":">> \o JoinGroups(Tail(vals), style)

\* segments of groups, a "::" between each two
RECURSIVE JoinSegments(_, _)
JoinSegments(segs, style) ==
    IF Len(segs) = 1 THEN JoinGroups(segs[1], style)
    ELSE JoinGroups(segs[1], style) \o <<":", ":">> \o JoinSegments(Tail(segs), style)

\* counts <<c1, .., cn>> -> segments of consecutive BaseVal entries
RECURSIVE SegmentsFrom(_, _)
SegmentsFrom(counts, first) ==
    IF counts = <<>> THEN <<>>
    ELSE <<[k \in 1..counts[1] |-> BaseVal[((first + k - 2) % Len(BaseVal)) + 1]]>>
         \o SegmentsFrom(Tail(counts), first + counts[1])

RECURSIVE SumOf(_)
SumOf(counts) == IF counts = <<>> THEN 0 ELSE Head(counts) + SumOf(Tail(counts))

\* the group counts of a line's segments: no "::", one "::" or two
CountTuples ==
    {c \in [1..1 -> 0..MaxGroups] \cup [1..2 -> 0..MaxGroups] \cup [1..3 -> 0..MaxGroups] :
        SumOf(c) <= MaxGroups}

Leads == {<<>>, <<"\t", " ">>}

Tails == {<<>>, <<":">>, <<"g">>, <<":", "g">>, <<" ", "g">>, <<"\r">>}

NoComp == <<0, 0>>

ZeroAddr == [k \in 1..8 |-> 0]

\* a line: lead, segments of groups joined by "::", tail
LineCases ==
    [kind : {"line"}, lead : Leads, counts : CountTuples, style : Styles, tail : Tails,
     addr : {ZeroAddr}, style2 : {"min"}, comp : {NoComp}, comp2 : {NoComp}]

Segs(c) == SegmentsFrom(c.counts, 1)

RenderLine(c) == c.lead \o JoinSegments(Segs(c), c.style) \o c.tail

\* eight-group addresses whose groups s .. s+z-1 are zero
Addresses ==
    {[k \in 1..8 |-> IF s <= k /\ k < s + z THEN 0 ELSE BaseVal[k]] :
        s \in 1..8, z \in 0..8}

\* <<p, l>>: groups p .. p+l-1 are zero and are written as "::"; NoComp: no "::"
CompOf(addr, comp) ==
    \/ comp = NoComp
    \/ /\ comp[1] >= 1
       /\ comp[2] >= 1
       /\ comp[1] + comp[2] - 1 <= 8
       /\ \A k \in comp[1]..(comp[1] + comp[2] - 1) : addr[k] = 0

Spell(addr, style, comp) ==
    IF comp = NoComp THEN JoinGroups(addr, style)
    ELSE JoinSegments(<<SubSeq(addr, 1, comp[1] - 1), SubSeq(addr, comp[1] + comp[2], 8)>>, style)

PairStyles == {"min", "upper", "pad4"}

\* two spellings of one address
PairCases ==
    {c \in [kind : {"pair"}, lead : {<<>>}, counts : {<<8>>}, style : PairStyles, tail : {<<>>},
            addr : Addresses, style2 : PairStyles, comp : (0..8) \X (0..8),
            comp2 : (0..8) \X (0..8)] :
        CompOf(c.addr, c.comp) /\ CompOf(c.addr, c.comp2)}

(***************************************************************************)
(* Keys, partitions and the reducer's sort-and-count                       *)
(***************************************************************************)

\* number of partitions (256 in the source, where the partition index is the top
\* byte of hi; the model runs the same code with fewer partitions)
NUM_BUCKETS == 3

Buckets == 0..(NUM_BUCKETS - 1)

\* capacity of one staging buffer, in keys (65536 in the source)
WRITE_BUFFER_SIZE == 2

\* uint128_t::operator< : hi first, then lo; a half compares limb by limb
RECURSIVE LimbsLess(_, _)
LimbsLess(a, b) ==
    IF a = <<>> THEN FALSE
    ELSE IF Head(a) # Head(b) THEN Head(a) < Head(b)
    ELSE LimbsLess(Tail(a), Tail(b))

KeyLess(a, b) == IF a.hi # b.hi THEN LimbsLess(a.hi, b.hi) ELSE LimbsLess(a.lo, b.lo)

\* uint128_t::operator==
KeyEq(a, b) == a.hi = b.hi /\ a.lo = b.lo

\* A partition index taken from the low end of the key.
BucketOfLow(key) == key.lo[4] % NUM_BUCKETS

\* bucketIdx = (ipVal.hi >> 56) & 0xFF: the top byte of the first group when
\* NUM_BUCKETS = 256, a position in 0 .. NUM_BUCKETS-1 of the same order otherwise
BucketOf(key) == (key.hi[1] * NUM_BUCKETS) \div 65536

RECURSIVE InsertSorted(_, _)
InsertSorted(k, s) ==
    IF s = <<>> THEN <<k>>
    ELSE IF KeyLess(k, Head(s)) THEN <<k>> \o s
    ELSE <<Head(s)>> \o InsertSorted(k, Tail(s))

\* A reducer that counts without sorting first.
SortOff(s) == s

\* std::sort(ips.begin(), ips.end())
RECURSIVE Sort(_)
Sort(s) == IF s = <<>> THEN <<>> ELSE InsertSorted(Head(s), Sort(Tail(s)))

\* A count that skips the duplicate removal.
UniqueNoDedup(s) == s

\* std::unique: keeps the first key of every run of equal neighbours
RECURSIVE Unique(_)
Unique(s) ==
    IF Len(s) <= 1 THEN s
    ELSE IF KeyEq(s[1], s[2]) THEN Unique(Tail(s))
    ELSE <<Head(s)>> \o Unique(Tail(s))

\* unique_in_bucket = distance(begin, unique(sorted ips))
UniqueInBucket(ips) == Len(Unique(Sort(ips)))

(***************************************************************************)
(* The pipeline: state                                                     *)
(***************************************************************************)

\* most lines an input file holds
MaxLines == 3

\* largest worker pool
MaxThreads == 2

\* if (nThreads == 0) nThreads = 4;
DefaultThreads == 4

Workers == 1..MaxThreads

\* nThreads = hardware_concurrency(); if (nThreads == 0) nThreads = 4;
PoolSize(hw) == IF hw = 0 THEN DefaultThreads ELSE hw

\* the lines an input file is made of
InputLines ==
    << <<":", ":", "1">>,
       <<"0", ":", "0", ":", "0", ":", "0", ":", "0", ":", "0", ":", "0", ":", "1">>,
       <<":", ":", "2">>,
       <<"f", "e", "8", "0", ":", ":", "1", "\r">>,
       <<"n", "o", "t", "-", "a", "n", "-", "i", "p">>,
       <<>> >>

Inputs ==
    UNION {{[k \in 1..n |-> InputLines[f[k]]] : f \in [1..n -> 1..Len(InputLines)]} :
             n \in 0..MaxLines}

\* a partition file that does not exist, and one holding keys
NoFile == [exists |-> FALSE, keys |-> <<>>]

FileOf(keys) == [exists |-> TRUE, keys |-> keys]

\* the output file before, or without, the result being written to it
NoOutput == [written |-> FALSE, count |-> 0]

OutputOf(count) == [written |-> TRUE, count |-> count]

VARIABLES
    input,              \* the lines of the input file, as std::getline yields them
    pc,                 \* where main is
    idx,                \* the loop index of openAll, flushAllAndClose, the spawn and join loops
    pos,                \* number of lines read so far
    streams,            \* streams[b]: is partition b's ofstream open
    buffers,            \* buffers[b]: the staging buffer of partition b
    files,              \* files[b]: temp_bucket_b.bin: does it exist, and its keys
    total_unique_count, \* the global accumulator
    currentBucket,      \* the shared claim counter
    nThreads,           \* size of the worker pool
    wpc,                \* wpc[w]: where worker w is
    wb,                 \* wb[w]: the index worker w fetched (0 outside processBucket)
    wunique,            \* wunique[w]: unique_in_bucket of worker w (0 outside processBucket)
    claims,             \* claims[b]: how many times processBucket(b) was called
    added,              \* added[b]: how many times partition b's count was added
    exitStatus,         \* the process's exit status, -1 while it runs
    outFile,            \* the output file: was the result written, and the number
    ioerr,              \* which open call failed: "none", "input", "staging" or "output"
    tcase,              \* parser harness: how the line under test was built
    tline,              \* parser harness: the line (and its second spelling)
    tres                \* parser harness: parseIPv6's results, or NotParsed

pipeVars == <<input, pc, idx, pos, streams, buffers, files, total_unique_count,
              currentBucket, nThreads, wpc, wb, wunique, claims, added, exitStatus, outFile,
              ioerr>>

testVars == <<tcase, tline, tres>>

vars == <<pipeVars, testVars>>

NoCase == [kind |-> "none", lead |-> <<>>, counts |-> <<0>>, style |-> "min", tail |-> <<>>,
           addr |-> ZeroAddr, style2 |-> "min", comp |-> NoComp, comp2 |-> NoComp]

PipeInit ==
    /\ pc = "start"
    /\ idx = 0
    /\ pos = 0
    /\ streams = [b \in Buckets |-> FALSE]
    /\ buffers = [b \in Buckets |-> <<>>]
    /\ files = [b \in Buckets |-> NoFile]
    /\ total_unique_count = 0
    /\ currentBucket = 0
    /\ nThreads = 0
    /\ wpc = [w \in Workers |-> "unborn"]
    /\ wb = [w \in Workers |-> 0]
    /\ wunique = [w \in Workers |-> 0]
    /\ claims = [b \in Buckets |-> 0]
    /\ added = [b \in Buckets |-> 0]
    /\ exitStatus = -1
    /\ outFile = NoOutput
    /\ ioerr = "none"

TestIdle ==
    /\ tcase = NoCase
    /\ tline = <<>>
    /\ tres = <<>>

Init ==
    /\ input \in Inputs
    /\ PipeInit
    /\ TestIdle

(***************************************************************************)
(* Phase 1: main reads, parses and partitions                              *)
(***************************************************************************)

\* An open failure that goes unnoticed.
InputOpenFailedOff(ok) == FALSE

\* if (!inFile.is_open()) { ...; return 1; }
InputOpenFailed(ok) == ~ok

\* std::ifstream inFile(inputPath); BucketWriter writer;
OpenInput ==
    /\ pc = "start"
    /\ \E ok \in BOOLEAN :
         /\ ioerr' = IF ok THEN ioerr ELSE "input"
         /\ IF InputOpenFailed(ok)
            THEN /\ pc' = "exited"
                 /\ exitStatus' = 1
                 /\ idx' = idx
            ELSE /\ pc' = "open_all"
                 /\ idx' = 0
                 /\ exitStatus' = exitStatus
    /\ UNCHANGED <<input, pos, streams, buffers, files, total_unique_count, currentBucket,
                   nThreads, wpc, wb, wunique, claims, added, outFile, testVars>>

\* one iteration of BucketWriter::openAll: create and truncate, or exit(1)
OpenAllStep ==
    /\ pc = "open_all"
    /\ idx < NUM_BUCKETS
    /\ \E ok \in BOOLEAN :
         /\ ioerr' = IF ok THEN ioerr ELSE "staging"
         /\ IF ok
            THEN /\ streams' = [streams EXCEPT ![idx] = TRUE]
                 /\ files' = [files EXCEPT ![idx] = FileOf(<<>>)]
                 /\ idx' = idx + 1
                 /\ UNCHANGED <<pc, exitStatus>>
            ELSE /\ pc' = "exited"
                 /\ exitStatus' = 1
                 /\ UNCHANGED <<streams, files, idx>>
    /\ UNCHANGED <<input, pos, buffers, total_unique_count, currentBucket,
                   nThreads, wpc, wb, wunique, claims, added, outFile, testVars>>

\* openAll returns
OpenAllEnd ==
    /\ pc = "open_all"
    /\ idx >= NUM_BUCKETS
    /\ pc' = "read"
    /\ UNCHANGED <<input, idx, pos, streams, buffers, files, total_unique_count, currentBucket,
                   nThreads, wpc, wb, wunique, claims, added, exitStatus, outFile, ioerr, testVars>>

\* if (line.back() == '\r') line.pop_back();
StripCR(line) ==
    IF line[Len(line)] = "\r" THEN SubSeq(line, 1, Len(line) - 1) ELSE line

\* A loop that adds ipVal whatever parseIPv6 returned.
IngestLineUnchecked(line) ==
    IF line = <<>> THEN Reject ELSE Accept(parseIPv6(StripCR(line)).key)

\* what the getline loop makes of one line: if (line.empty()) continue; strip the
\* CR; parseIPv6(line, ipVal)
IngestLine(line) == IF line = <<>> THEN Reject ELSE parseIPv6(StripCR(line))

\* A flush that writes the buffer in front of the file's keys.
FlushedFilePrepend(file, buf) == IF buf = <<>> THEN file ELSE FileOf(buf \o file.keys)

\* BucketWriter::flush: the file's keys after flushing buf to it
FlushedFile(file, buf) == IF buf = <<>> THEN file ELSE FileOf(file.keys \o buf)

\* A capacity test that lets the buffer reach WRITE_BUFFER_SIZE keys.
BufferFullLate(buf) == Len(buf) > WRITE_BUFFER_SIZE

\* if (buffers[bucket_idx].size() >= WRITE_BUFFER_SIZE) flush(bucket_idx);
BufferFull(buf) == Len(buf) >= WRITE_BUFFER_SIZE

\* one iteration of the getline loop: skip an empty line, strip the CR, parse,
\* and BucketWriter::add the key to its partition
ReadLine ==
    /\ pc = "read"
    /\ pos < Len(input)
    /\ pos' = pos + 1
    /\ LET line == input[pos + 1]
           r == IngestLine(line)
           b == BucketOf(r.key)
           buf == Append(buffers[b], r.key)
       IN  IF r.ok
           THEN IF BufferFull(buf)
                THEN /\ files' = [files EXCEPT ![b] = FlushedFile(files[b], buf)]
                     /\ buffers' = [buffers EXCEPT ![b] = <<>>]
                ELSE /\ buffers' = [buffers EXCEPT ![b] = buf]
                     /\ files' = files
           ELSE UNCHANGED <<buffers, files>>
    /\ UNCHANGED <<input, pc, idx, streams, total_unique_count, currentBucket,
                   nThreads, wpc, wb, wunique, claims, added, exitStatus, outFile, ioerr, testVars>>

\* getline reports the end of the input
EndOfInput ==
    /\ pc = "read"
    /\ pos >= Len(input)
    /\ pc' = "flush_all"
    /\ idx' = 0
    /\ UNCHANGED <<input, pos, streams, buffers, files, total_unique_count, currentBucket,
                   nThreads, wpc, wb, wunique, claims, added, exitStatus, outFile, ioerr, testVars>>

\* A loop that stops one partition early.
FlushAllMoreShort(i) == i < NUM_BUCKETS - 1

\* the loop condition of flushAllAndClose
FlushAllMore(i) == i < NUM_BUCKETS

\* one iteration of BucketWriter::flushAllAndClose: flush(i); streams[i].close();
FlushAllStep ==
    /\ pc = "flush_all"
    /\ FlushAllMore(idx)
    /\ files' = [files EXCEPT ![idx] = FlushedFile(files[idx], buffers[idx])]
    /\ buffers' = [buffers EXCEPT ![idx] = <<>>]
    /\ streams' = [streams EXCEPT ![idx] = FALSE]
    /\ idx' = idx + 1
    /\ UNCHANGED <<input, pc, pos, total_unique_count, currentBucket,
                   nThreads, wpc, wb, wunique, claims, added, exitStatus, outFile, ioerr, testVars>>

\* flushAllAndClose returns; inFile.close(); the pool size and the claim counter are set
StartPhase2 ==
    /\ pc = "flush_all"
    /\ ~FlushAllMore(idx)
    /\ \E hw \in 0..MaxThreads :
         /\ PoolSize(hw) <= MaxThreads
         /\ nThreads' = PoolSize(hw)
    /\ currentBucket' = 0
    /\ pc' = "spawn"
    /\ idx' = 0
    /\ UNCHANGED <<input, pos, streams, buffers, files, total_unique_count,
                   wpc, wb, wunique, claims, added, exitStatus, outFile, ioerr, testVars>>

(***************************************************************************)
(* Phase 2: the worker pool                                                *)
(***************************************************************************)

\* threads.emplace_back(worker): one iteration of the spawn loop
SpawnThread ==
    /\ pc = "spawn"
    /\ idx < nThreads
    /\ wpc' = [wpc EXCEPT ![idx + 1] = "fetch"]
    /\ idx' = idx + 1
    /\ UNCHANGED <<input, pc, pos, streams, buffers, files, total_unique_count, currentBucket,
                   nThreads, wb, wunique, claims, added, exitStatus, outFile, ioerr, testVars>>

\* the spawn loop ends
SpawnEnd ==
    /\ pc = "spawn"
    /\ idx >= nThreads
    /\ pc' = "join"
    /\ idx' = 0
    /\ UNCHANGED <<input, pos, streams, buffers, files, total_unique_count, currentBucket,
                   nThreads, wpc, wb, wunique, claims, added, exitStatus, outFile, ioerr, testVars>>

\* A claim counter that advances by two.
FetchAddSkip(counter) == counter + 2

\* currentBucket.fetch_add(1): the counter's next value
FetchAdd(counter) == counter + 1

\* size_t b = currentBucket.fetch_add(1); if (b >= NUM_BUCKETS) break; processBucket(b);
WorkerFetch(w) ==
    /\ wpc[w] = "fetch"
    /\ currentBucket' = FetchAdd(currentBucket)
    /\ IF currentBucket >= NUM_BUCKETS
       THEN /\ wpc' = [wpc EXCEPT ![w] = "done"]
            /\ UNCHANGED <<wb, claims>>
       ELSE /\ wpc' = [wpc EXCEPT ![w] = "open"]
            /\ wb' = [wb EXCEPT ![w] = currentBucket]
            /\ claims' = [claims EXCEPT ![currentBucket] = @ + 1]
    /\ UNCHANGED <<input, pc, idx, pos, streams, buffers, files, total_unique_count,
                   nThreads, wunique, added, exitStatus, outFile, ioerr, testVars>>

\* A reducer that deletes the file before its count is added.
AfterReadRemoveFirst == "remove"

\* where processBucket continues after a non-empty file was read, sorted and counted
AfterRead == "add"

\* processBucket up to the count: open the file, return if that fails, go and
\* delete it if it is empty, else read, sort and count it
WorkerOpen(w) ==
    /\ wpc[w] = "open"
    /\ LET file == files[wb[w]]
       IN  IF ~file.exists
           THEN /\ wpc' = [wpc EXCEPT ![w] = "fetch"]
                /\ wb' = [wb EXCEPT ![w] = 0]
                /\ wunique' = wunique
           ELSE IF Len(file.keys) = 0
           THEN /\ wpc' = [wpc EXCEPT ![w] = "remove"]
                /\ wb' = wb
                /\ wunique' = [wunique EXCEPT ![w] = 0]
           ELSE /\ wpc' = [wpc EXCEPT ![w] = AfterRead]
                /\ wb' = wb
                /\ wunique' = [wunique EXCEPT ![w] = UniqueInBucket(file.keys)]
    /\ UNCHANGED <<input, pc, idx, pos, streams, buffers, files, total_unique_count,
                   currentBucket, nThreads, claims, added, exitStatus, outFile, ioerr, testVars>>

\* An accumulator that is assigned instead of added to.
AccumulateStore(total, unique_in_bucket) == unique_in_bucket

\* total_unique_count += unique_in_bucket: the accumulator's next value
Accumulate(total, unique_in_bucket) == total + unique_in_bucket

\* total_unique_count += unique_in_bucket;
WorkerAdd(w) ==
    /\ wpc[w] = "add"
    /\ total_unique_count' = Accumulate(total_unique_count, wunique[w])
    /\ added' = [added EXCEPT ![wb[w]] = @ + 1]
    /\ wpc' = [wpc EXCEPT ![w] = "remove"]
    /\ UNCHANGED <<input, pc, idx, pos, streams, buffers, files, currentBucket,
                   nThreads, wb, wunique, claims, exitStatus, outFile, ioerr, testVars>>

\* A worker that returns after its first partition.
AfterProcessStop == "done"

\* while (true): after processBucket(b) the worker fetches the next index
AfterProcess == "fetch"

\* std::remove(fname.c_str()); processBucket returns
WorkerRemove(w) ==
    /\ wpc[w] = "remove"
    /\ files' = [files EXCEPT ![wb[w]] = NoFile]
    /\ wpc' = [wpc EXCEPT ![w] = AfterProcess]
    /\ wb' = [wb EXCEPT ![w] = 0]
    /\ wunique' = [wunique EXCEPT ![w] = 0]
    /\ UNCHANGED <<input, pc, idx, pos, streams, buffers, total_unique_count, currentBucket,
                   nThreads, claims, added, exitStatus, outFile, ioerr, testVars>>

\* t.join(): one iteration of the join loop, which waits for that worker to return
JoinThread ==
    /\ pc = "join"
    /\ idx < nThreads
    /\ wpc[idx + 1] = "done"
    /\ idx' = idx + 1
    /\ UNCHANGED <<input, pc, pos, streams, buffers, files, total_unique_count, currentBucket,
                   nThreads, wpc, wb, wunique, claims, added, exitStatus, outFile, ioerr, testVars>>

\* the join loop ends
JoinEnd ==
    /\ pc = "join"
    /\ idx >= nThreads
    /\ pc' = "write_out"
    /\ UNCHANGED <<input, idx, pos, streams, buffers, files, total_unique_count, currentBucket,
                   nThreads, wpc, wb, wunique, claims, added, exitStatus, outFile, ioerr, testVars>>

\* the result is written if the output file opens; main returns 0 either way
WriteOutput ==
    /\ pc = "write_out"
    /\ \E ok \in BOOLEAN :
         /\ outFile' = IF ok THEN OutputOf(total_unique_count) ELSE NoOutput
         /\ ioerr' = IF ok THEN ioerr ELSE "output"
    /\ pc' = "done"
    /\ exitStatus' = 0
    /\ UNCHANGED <<input, idx, pos, streams, buffers, files, total_unique_count, currentBucket,
                   nThreads, wpc, wb, wunique, claims, added, testVars>>

Next ==
    \/ OpenInput
    \/ OpenAllStep
    \/ OpenAllEnd
    \/ ReadLine
    \/ EndOfInput
    \/ FlushAllStep
    \/ StartPhase2
    \/ SpawnThread
    \/ SpawnEnd
    \/ \E w \in Workers : WorkerFetch(w)
    \/ \E w \in Workers : WorkerOpen(w)
    \/ \E w \in Workers : WorkerAdd(w)
    \/ \E w \in Workers : WorkerRemove(w)
    \/ JoinThread
    \/ JoinEnd
    \/ WriteOutput

Spec == Init /\ [][Next]_vars

\* the steps of the main thread in Phase 2, and those of worker w
MainPhase2Step == SpawnThread \/ SpawnEnd \/ JoinThread \/ JoinEnd

WorkerStep(w) == WorkerFetch(w) \/ WorkerOpen(w) \/ WorkerAdd(w) \/ WorkerRemove(w)

\* inputs of the fair runs: no line, one partition, two partitions and a bad line
FairInputs ==
    { <<>>,
      <<InputLines[1]>>,
      <<InputLines[4], InputLines[1], InputLines[5]>> }

FairInit ==
    /\ input \in FairInputs
    /\ PipeInit
    /\ TestIdle

\* the pipeline under a scheduler that, in Phase 2, lets every thread that can
\* run take a step
SpecFair ==
    /\ FairInit
    /\ [][Next]_vars
    /\ WF_vars(MainPhase2Step)
    /\ \A w \in Workers : WF_vars(WorkerStep(w))

(***************************************************************************)
(* The parser on its own: one line (or two spellings of one address) is    *)
(* drawn, then parsed                                                      *)
(***************************************************************************)

ParseInit ==
    /\ input = <<>>
    /\ PipeInit
    /\ \/ tcase \in LineCases
       \/ tcase \in PairCases
    /\ tline = IF tcase.kind = "pair"
               THEN <<Spell(tcase.addr, tcase.style, tcase.comp),
                      Spell(tcase.addr, tcase.style2, tcase.comp2)>>
               ELSE <<RenderLine(tcase), RenderLine([tcase EXCEPT !.style = "pad4"])>>
    /\ tres = <<>>

\* white space put before a line
Prefixes == <<<<" ">>, <<"\t", "\r">>>>

\* the results for a drawn line: parseIPv6 of both texts (for a single line the
\* second text is the line with every group written as four digits) and, for a
\* single line, what the getline loop makes of the line as it is, with a CR
\* appended, and with white space put before it, and parseIPv6's use of parts[]
ParseLine ==
    /\ tres = <<>>
    /\ tline # <<>>
    /\ tres' = IF tcase.kind = "pair"
               THEN <<parseIPv6(tline[1]), parseIPv6(tline[2])>>
               ELSE <<parseIPv6(tline[1]), parseIPv6(tline[2]),
                      IngestLine(tline[1]),
                      IngestLine(tline[1] \o <<"\r">>),
                      IngestLine(Prefixes[1] \o tline[1]),
                      IngestLine(Prefixes[2] \o tline[1]),
                      ParseTrace(tline[1])>>
    /\ UNCHANGED <<pipeVars, tcase, tline>>

ParseNext == ParseLine

SpecParse == ParseInit /\ [][ParseNext]_vars

(***************************************************************************)
(* Notions the properties are stated in                                    *)
(***************************************************************************)

\* the lines of inp that reach parseIPv6 and are accepted by it
AcceptedLines(inp) ==
    {k \in 1..Len(inp) : inp[k] # <<>> /\ parseIPv6(StripCR(inp[k])).ok}

\* the distinct keys of the accepted lines
AcceptedKeySet(inp) == {parseIPv6(StripCR(inp[k])).key : k \in AcceptedLines(inp)}

Joined == pc \in {"write_out", "done"}

Phase2Started == pc \in {"spawn", "join", "write_out", "done"}

AllFlushedAndClosed == \A b \in Buckets : buffers[b] = <<>> /\ ~streams[b]

\* the eight groups of a key, slot 0 first
GroupsOf(key) == key.hi \o key.lo

SlotOf(key, slot) == IF slot \in 0..7 THEN GroupsOf(key)[slot + 1] ELSE -1

AddressChars == {DecDigits[k] : k \in 1..10} \cup {LowerHex[k] : k \in 1..6}
                  \cup {UpperHex[k] : k \in 1..6} \cup {":"}

\* the address token of a line: from the first non-blank character up to the
\* character before the next blank one
TokenStart(line) ==
    IF \A k \in 1..Len(line) : isspace(line[k]) THEN Len(line) + 1
    ELSE CHOOSE k \in 1..Len(line) :
           ~isspace(line[k]) /\ \A j \in 1..(k - 1) : isspace(line[j])

TokenEnd(line) ==
    IF TokenStart(line) > Len(line) THEN Len(line)
    ELSE CHOOSE e \in TokenStart(line)..Len(line) :
           /\ \A j \in TokenStart(line)..e : ~isspace(line[j])
           /\ e = Len(line) \/ isspace(line[e + 1])

Token(line) == SubSeq(line, TokenStart(line), TokenEnd(line))

HasBadChar(line) == \E k \in 1..Len(Token(line)) : Token(line)[k] \notin AddressChars

MarkerAt(t, k) == k >= 1 /\ k < Len(t) /\ t[k] = ":" /\ t[k + 1] = ":"

HasMarker(t) == \E k \in 1..Len(t) : MarkerAt(t, k)

\* two "::" with at least one hex digit between them
TwoMarkers(t) ==
    \E i \in 1..Len(t), j \in 1..Len(t) :
        /\ MarkerAt(t, i)
        /\ MarkerAt(t, j)
        /\ \E k \in (i + 2)..(j - 1) : t[k] # ":"

\* the number of maximal runs of hex digits
NumGroups(t) ==
    Cardinality({k \in 1..Len(t) :
        /\ t[k] \in AddressChars \ {":"}
        /\ k = 1 \/ t[k - 1] \notin AddressChars \ {":"}})

Parsed == tres # <<>>

(***************************************************************************)
(* Properties                                                              *)
(***************************************************************************)

\* C1: once the workers are joined, the accumulator equals the number of distinct
\* keys parseIPv6 produces over the accepted lines of the input, whatever the pool
\* size and the interleaving of the workers.
C1_FinalCountIsDistinctKeys ==
    Joined => total_unique_count = Cardinality(AcceptedKeySet(input))

\* a run with two workers over three accepted lines holding two distinct keys
C1_Witness ==
    /\ pc = "done"
    /\ nThreads = 2
    /\ Cardinality(AcceptedLines(input)) = 3
    /\ Cardinality(AcceptedKeySet(input)) = 2
    /\ total_unique_count = 2

\* C2: every partition index below the claim counter has been handed to
\* processBucket exactly once and no other index has been handed out; after the
\* join every index 0 .. NUM_BUCKETS-1 was handed out exactly once.
C2_EachIndexClaimedOnce ==
    /\ \A b \in Buckets : claims[b] = IF b < currentBucket THEN 1 ELSE 0
    /\ Joined => \A b \in Buckets : claims[b] = 1

\* two workers are inside processBucket with different indices
C2_Witness ==
    /\ wpc[1] \in {"open", "add", "remove"}
    /\ wpc[2] \in {"open", "add", "remove"}
    /\ wb[1] # wb[2]

\* C3: while any worker exists every staging buffer is empty and every partition
\* stream is closed, and from the start of Phase 2 on a partition file is never
\* appended to: it keeps its keys or is deleted.
C3_Barrier ==
    /\ []((\E w \in Workers : wpc[w] # "unborn") => Phase2Started)
    /\ [](Phase2Started => AllFlushedAndClosed)
    /\ [][Phase2Started =>
            \A b \in Buckets : files'[b] = files[b] \/ ~files'[b].exists]_vars

\* a worker is about to open a partition file that holds keys
C3_Witness ==
    \E w \in Workers : wpc[w] = "open" /\ files[wb[w]].keys # <<>>

\* C4: an accepted line "<m groups>::<n groups>" has the m leading groups in slots
\* 0..m-1, the n trailing groups in slots 8-n..7 and zero in every slot between.
C4_MarkerExpansion ==
    (/\ Parsed
     /\ tcase.kind = "line"
     /\ Len(tcase.counts) = 2
     /\ tcase.tail = <<>>
     /\ tcase.style # "long"
     /\ tres[1].ok)
    => LET m == tcase.counts[1]
           n == tcase.counts[2]
           pre == Segs(tcase)[1]
           post == Segs(tcase)[2]
       IN  /\ \A k \in 1..m : SlotOf(tres[1].key, k - 1) = pre[k]
           /\ \A k \in 1..n : SlotOf(tres[1].key, 8 - n + k - 1) = post[k]
           /\ \A slot \in m..(7 - n) : SlotOf(tres[1].key, slot) = 0

\* C5: two accepted spellings of one address (case, leading zeros, "::" for a run
\* of zero groups) give the same key, the one made of the address's eight groups.
C5_SpellingsAgree ==
    (Parsed /\ tcase.kind = "pair" /\ tres[1].ok /\ tres[2].ok)
    => /\ tres[1].key = tres[2].key
       /\ GroupsOf(tres[1].key) = tcase.addr

\* an uncompressed and a compressed spelling in different styles, both accepted
C5_Witness ==
    /\ Parsed
    /\ tcase.kind = "pair"
    /\ tcase.comp = NoComp
    /\ tcase.comp2 # NoComp
    /\ tcase.style = "min"
    /\ tcase.style2 = "upper"
    /\ tline[1] # tline[2]
    /\ tres[1].ok
    /\ tres[2].ok

\* C6: a line whose address token holds a character outside [0-9a-fA-F:] is rejected.
C6_BadCharRejected ==
    (Parsed /\ HasBadChar(tline[1])) => ~tres[1].ok

\* C7: a line whose address token holds two separate "::" markers is rejected.
C7_SecondMarkerRejected ==
    (Parsed /\ TwoMarkers(Token(tline[1]))) => ~tres[1].ok

\* C8: a line with fewer than eight hex groups and no "::" is rejected.
C8_ShortNoMarkerRejected ==
    (Parsed /\ NumGroups(tline[1]) < 8 /\ ~HasMarker(tline[1])) => ~tres[1].ok

\* seven groups, no "::", nothing else on the line: parsed and rejected
C8_Witness ==
    /\ Parsed
    /\ tcase.kind = "line"
    /\ tcase.counts = <<7>>
    /\ tcase.lead = <<>>
    /\ tcase.tail = <<>>
    /\ NumGroups(tline[1]) = 7
    /\ ~tres[1].ok

\* C9 as stated: a partition file that was handed to a worker and is gone had
\* its count added to the accumulator before.
C9_DeletedOnlyAfterAddition ==
    \A b \in Buckets : (claims[b] >= 1 /\ ~files[b].exists) => added[b] >= 1

\* C9: after the join no partition file exists, and a file is deleted only by a
\* worker that was handed its index and has opened it, and, when the file holds
\* keys, only after that partition's count was added to the accumulator (a file
\* without keys has count 0 and is deleted without an addition).
C9_FilesDeletedAfterCount ==
    /\ [](Joined => \A b \in Buckets : ~files[b].exists)
    /\ [][\A b \in Buckets :
            (files[b].exists /\ ~files'[b].exists) =>
                /\ claims[b] >= 1
                /\ \E w \in Workers : wpc[w] = "remove" /\ wb[w] = b /\ wpc'[w] = "fetch"
                /\ files[b].keys # <<>> => added[b] >= 1]_vars

\* a finished run in which some partition held keys
C9_Witness ==
    /\ pc = "done"
    /\ \E b \in Buckets : added[b] = 1
    /\ \A b \in Buckets : ~files[b].exists

\* C10: when the input file or a staging file cannot be opened, the process has
\* exited with a non-zero status, no line was read, no key buffered, no worker
\* started, the accumulator is 0 and the output file was not written.
C10_StartupFailureAborts ==
    ioerr \in {"input", "staging"} =>
        /\ pc = "exited"
        /\ exitStatus > 0
        /\ pos = 0
        /\ \A b \in Buckets : buffers[b] = <<>>
        /\ \A w \in Workers : wpc[w] = "unborn"
        /\ total_unique_count = 0
        /\ outFile = NoOutput

\* a staging file other than the first could not be created
C10_Witness ==
    /\ ioerr = "staging"
    /\ idx >= 1
    /\ pc = "exited"

\* the line without its white space: empty when nothing but white space is in it
Trimmed(line) == SelectSeq(line, LAMBDA c : ~isspace(c))

\* C11: a line yields a key, and which key, regardless of a carriage return
\* appended to it and of white space put before it; a line that is empty after
\* trimming yields no key.
C11_CRAndLeadingSpaceIgnored ==
    (Parsed /\ tcase.kind = "line") =>
        /\ tres[4] = tres[3]
        /\ tres[5] = tres[3]
        /\ tres[6] = tres[3]
        /\ Trimmed(tline[1]) = <<>> => ~tres[3].ok /\ ~tres[4].ok /\ ~tres[5].ok

\* an accepted line that already ends in a CR, and a rejected one
C11_Witness ==
    /\ Parsed
    /\ tcase.kind = "line"
    /\ tcase.tail = <<"\r">>
    /\ tcase.lead # <<>>
    /\ tres[3].ok
    /\ tres[3].key # ZeroKey
    /\ tres[4] = tres[3]
    /\ tres[5] = tres[3]


\* the keys of a sequence
KeysOf(seq) == {seq[k] : k \in 1..Len(seq)}

\* key's top bits are p: its first group lies in the p-th of the NUM_BUCKETS
\* equal ranges of 0 .. 65535 (the top byte is p when NUM_BUCKETS = 256)
InPartition(key, p) ==
    /\ p * 65536 <= key.hi[1] * NUM_BUCKETS
    /\ key.hi[1] * NUM_BUCKETS < (p + 1) * 65536

\* the keys partition p holds, staged or on disk
PartitionKeys(p) == KeysOf(buffers[p]) \cup KeysOf(files[p].keys)

\* C12: every key in partition p's staging buffer or file has top bits p, and
\* no key is in two partitions.
C12_KeysInTheirPartition ==
    /\ \A p \in Buckets : \A key \in PartitionKeys(p) : InPartition(key, p)
    /\ \A p, q \in Buckets : p < q => PartitionKeys(p) \cap PartitionKeys(q) = {}

\* two partitions hold keys, one staged and one on disk
C12_Witness ==
    \E p, q \in Buckets :
        /\ p # q
        /\ buffers[p] # <<>>
        /\ files[q].keys # <<>>

\* the keys of the accepted lines of inp that have top bits p, in line order
RECURSIVE RoutedKeys(_, _)
RoutedKeys(inp, p) ==
    IF inp = <<>> THEN <<>>
    ELSE LET line == Head(inp)
             r == IF line = <<>> THEN Reject ELSE parseIPv6(StripCR(line))
         IN  IF r.ok /\ InPartition(r.key, p)
             THEN <<r.key>> \o RoutedKeys(Tail(inp), p)
             ELSE RoutedKeys(Tail(inp), p)

\* flushAllAndClose has returned and no worker was started yet
Phase1Ended == pc = "spawn" /\ idx = 0

\* C13: when Phase 1 has ended, partition p's file holds exactly the accepted
\* keys routed to p, in arrival order, and every staging buffer is empty; the
\* buffers stay empty from then on.
C13_FilesHoldRoutedKeys ==
    /\ Phase1Ended => \A p \in Buckets : files[p] = FileOf(RoutedKeys(input, p))
    /\ Phase2Started => \A p \in Buckets : buffers[p] = <<>>

\* a file written by a flush at capacity and by the final flush
C13_Witness ==
    /\ Phase1Ended
    /\ \E p \in Buckets :
         /\ Len(files[p].keys) > WRITE_BUFFER_SIZE
         /\ files[p].keys[1] # files[p].keys[Len(files[p].keys)]

RECURSIVE BufferedUpTo(_)
BufferedUpTo(n) == IF n = 0 THEN 0 ELSE Len(buffers[n - 1]) + BufferedUpTo(n - 1)

\* C14: every staging buffer holds fewer than WRITE_BUFFER_SIZE keys, and all
\* buffers together no more than NUM_BUCKETS x WRITE_BUFFER_SIZE.
C14_BuffersBelowCapacity ==
    /\ \A b \in Buckets : Len(buffers[b]) < WRITE_BUFFER_SIZE
    /\ BufferedUpTo(NUM_BUCKETS) <= NUM_BUCKETS * WRITE_BUFFER_SIZE

\* an add has just flushed a buffer that reached capacity
C14_Witness ==
    /\ pc = "read"
    /\ \E b \in Buckets :
         /\ Len(files[b].keys) = WRITE_BUFFER_SIZE
         /\ buffers[b] = <<>>


DistinctKeys(seq) == Cardinality(KeysOf(seq))

\* C15: the amount a worker adds for a partition is the number of distinct keys
\* of the partition file's sequence; nothing is added for an empty file; the
\* reducer's count of the sequence a worker is given is that of its set of
\* keys, and is the same for the sequence already sorted and deduplicated.
C15_CountIsDistinctKeys ==
    /\ [][\A w \in Workers :
            (wpc[w] = "add" /\ wpc'[w] # "add") =>
                total_unique_count' - total_unique_count = DistinctKeys(files[wb[w]].keys)]_vars
    /\ [][\A w \in Workers :
            (wpc[w] = "open" /\ wpc'[w] = "remove") =>
                /\ DistinctKeys(files[wb[w]].keys) = 0
                /\ total_unique_count' = total_unique_count]_vars
    /\ [](\A w \in Workers :
            wpc[w] \in {"open", "add"} =>
                /\ UniqueInBucket(files[wb[w]].keys) = DistinctKeys(files[wb[w]].keys)
                /\ UniqueInBucket(Unique(Sort(files[wb[w]].keys)))
                     = DistinctKeys(files[wb[w]].keys))

\* a count was added for a file whose keys are out of order and repeat
C15_Witness ==
    \E w \in Workers :
        /\ wpc[w] = "remove"
        /\ added[wb[w]] = 1
        /\ total_unique_count >= DistinctKeys(files[wb[w]].keys)
        /\ Len(files[wb[w]].keys) > DistinctKeys(files[wb[w]].keys)
        /\ \E k \in 1..(Len(files[wb[w]].keys) - 1) :
             KeyLess(files[wb[w]].keys[k + 1], files[wb[w]].keys[k])

\* what the getline loop makes of each line of InputLines
InputLineResults == [k \in 1..Len(InputLines) |-> IngestLine(InputLines[k])]

\* the distinct keys of the accepted lines of the input, looked up in that table
InputKeySet ==
    {InputLineResults[IndexOf(InputLines, input[k])].key :
        k \in {j \in 1..Len(input) : InputLineResults[IndexOf(InputLines, input[j])].ok}}

\* the sum, over the partitions below n whose addition happened, of the number
\* of keys of the set keys that have the partition's top bits
RECURSIVE AddedSumUpTo(_, _)
AddedSumUpTo(keys, n) ==
    IF n = 0 THEN 0
    ELSE (IF added[n - 1] >= 1
          THEN Cardinality({key \in keys : InPartition(key, n - 1)})
          ELSE 0) + AddedSumUpTo(keys, n - 1)

\* C16 as stated: once the workers are joined, every partition's count has been
\* added exactly once.
C16_EveryCountAddedOnce == Joined => \A b \in Buckets : added[b] = 1

\* C16: the accumulator never decreases; a partition's count is added by the
\* worker holding its index, the only one that claimed it, and never twice;
\* the accumulator is the sum of the distinct counts of the partitions added so
\* far; after the join the count of every partition that holds keys has been
\* added once, and nothing was added for an empty partition.
C16_AccumulatorIsSumOfAdded ==
    /\ [][total_unique_count' >= total_unique_count]_vars
    /\ [][\A b \in Buckets :
            added'[b] # added[b] =>
                /\ added'[b] = 1
                /\ claims[b] = 1
                /\ \E w \in Workers : wpc[w] = "add" /\ wb[w] = b /\ wpc'[w] # "add"]_vars
    /\ [](total_unique_count =
            IF \A b \in Buckets : added[b] = 0 THEN 0
            ELSE AddedSumUpTo(InputKeySet, NUM_BUCKETS))
    /\ [](Joined =>
            \A b \in Buckets : added[b] = IF RoutedKeys(input, b) = <<>> THEN 0 ELSE 1)

\* one partition's count is in the accumulator, another worker is about to add
\* its own
C16_Witness ==
    /\ total_unique_count > 0
    /\ \E b \in Buckets : added[b] = 1
    /\ \E w \in Workers : wpc[w] = "add" /\ wunique[w] > 0 /\ added[wb[w]] = 0

\* C17: under fair scheduling Phase 2 ends with the workers joined, every
\* worker of the pool returned and every partition processed; a worker returns
\* only on fetching an index >= NUM_BUCKETS; a worker that has not returned
\* can always take its next step, whatever the other workers do.
C17_Phase2Terminates ==
    /\ Phase2Started ~>
          (/\ Joined
           /\ \A w \in Workers : w <= nThreads => wpc[w] = "done"
           /\ \A b \in Buckets : claims[b] = 1 /\ ~files[b].exists)
    /\ [][\A w \in Workers :
            (wpc[w] # "done" /\ wpc'[w] = "done") =>
                wpc[w] = "fetch" /\ currentBucket >= NUM_BUCKETS]_vars
    /\ [](\A w \in Workers :
            wpc[w] \in {"fetch", "open", "add", "remove"} => ENABLED WorkerStep(w))

\* the pool was started with several workers and all of them have returned
C17_Witness ==
    /\ Joined
    /\ nThreads > 1
    /\ \A w \in Workers : w <= nThreads => wpc[w] = "done"
    /\ \A b \in Buckets : claims[b] = 1
    /\ total_unique_count > 1

\* C18: reading a line that parseIPv6 rejects leaves every staging buffer and
\* every partition file as it was.
C18_RejectedLineChangesNothing ==
    [][(/\ pc = "read"
        /\ pos' = pos + 1
        /\ input[pos + 1] # <<>>
        /\ ~parseIPv6(StripCR(input[pos + 1])).ok) =>
            buffers' = buffers /\ files' = files]_vars

\* a rejected line was read after a key was staged
C18_Witness ==
    /\ pc = "read"
    /\ pos >= 2
    /\ input[pos] # <<>>
    /\ ~parseIPv6(StripCR(input[pos])).ok
    /\ \E b \in Buckets : buffers[b] # <<>>


\* C19: a line whose groups are written with five or with nine hex digits is
\* accepted or rejected as the same line with each group written as its last
\* four digits, and yields the same key; a line of eight such groups is
\* accepted and each stored group is the value of the group's last four digits.
C19_LongGroupsTruncated ==
    (Parsed /\ tcase.kind = "line" /\ tcase.style \in {"five", "long"}) =>
        /\ tres[1] = tres[2]
        /\ (tcase.counts = <<8>> /\ tcase.tail = <<>>) =>
              tres[1].ok /\ GroupsOf(tres[1].key) = Segs(tcase)[1]

\* eight groups of nine digits each
C19_Witness ==
    /\ Parsed
    /\ tcase.kind = "line"
    /\ tcase.style = "long"
    /\ tcase.counts = <<8>>
    /\ tcase.tail = <<>>
    /\ Len(tline[1]) = 8 * 9 + 7 + Len(tcase.lead)
    /\ tres[1].ok
    /\ GroupsOf(tres[1].key) = Segs(tcase)[1]

\* C20: parseIPv6 reads and writes parts[] only at indices 0..7, in the main
\* loop and in the "::" expansion; a recorded double_colon_index is at least 0
\* and at most the number of groups parsed, so parts_to_shift is not negative.
C20_PartsIndicesInRange ==
    (Parsed /\ tcase.kind = "line") =>
        /\ tres[7].stored \subseteq 0..7
        /\ tres[7].shifted \subseteq 0..7
        /\ tres[7].parts_parsed \in 0..8
        /\ tres[7].double_colon_index # -1 =>
              /\ tres[7].double_colon_index >= 0
              /\ tres[7].double_colon_index <= tres[7].parts_parsed
              /\ tres[7].parts_to_shift >= 0

\* a line of more than eight groups with "::" in it: all slots written, then shifted
C20_Witness ==
    /\ Parsed
    /\ tcase.kind = "line"
    /\ SumOf(tcase.counts) > 8
    /\ tres[7].stored = 0..7
    /\ tres[7].expands
    /\ tres[7].double_colon_index > 0
    /\ tres[7].parts_to_shift > 0
    /\ 7 \in tres[7].shifted

=============================================================================
